---- MODULE Spec2Model ----
(***************************************************************************)
(* Process allocation of load_balancer.py: ProcessAllocator places a batch *)
(* of Process records on Node records, one process per loop iteration.     *)
(*                                                                         *)
(* Units.  cpu is an integer percentage, as in the source.  memory is a    *)
(* float in the source; every memory value of the dataset is a multiple of *)
(* 0.5 GB, which binary floating point adds and compares exactly, so the   *)
(* model counts memory in half-gigabytes (4.0 GB is 8).  Scores are floats *)
(* in the source; the model keeps them exact by scaling: a load score is   *)
(* counted in 1/6000 and a placement score in 1/12000.                     *)
(* Strings are sequences of one-character strings, so that lower() and the *)
(* substring test `in` are computed and not assumed.                       *)
(***************************************************************************)
EXTENDS Integers, Sequences, FiniteSets

VARIABLES
    nodes,              \* self.nodes: name -> Node
    initial_nodes,      \* self.nodes as it was handed to __init__
    allocations,        \* self.allocations: name -> list of Process
    processes,          \* the argument of allocate_processes (input order)
    sorted_processes,   \* the local sorted_processes
    pc,                 \* position in allocate_processes
    idx,                \* 1-based position of the for loop in sorted_processes
    output,             \* the lines printed by the loop (lines 212 and 214)
    twin_nodes,         \* a second run's self.nodes
    twin_allocations,   \* a second run's self.allocations
    twin_output         \* a second run's printed lines

vars == <<nodes, initial_nodes, allocations, processes, sorted_processes, pc, idx, output,
          twin_nodes, twin_allocations, twin_output>>

twin_vars == <<twin_nodes, twin_allocations, twin_output>>

\* The longest batch of processes the model draws.
MaxBatch == 3

\* What _allocate_single_process returns, and line 214 prints, without a candidate.
None == "FAILED"

----------------------------------------------------------------------------
\* Strings

UpperCase == <<"A","B","C","D","E","F","G","H","I","J","K","L","M",
               "N","O","P","Q","R","S","T","U","V","W","X","Y","Z">>
LowerCase == <<"a","b","c","d","e","f","g","h","i","j","k","l","m",
               "n","o","p","q","r","s","t","u","v","w","x","y","z">>

\* str.lower() on one character.
LowerChar(c) ==
    IF \E k \in 1..Len(UpperCase) : UpperCase[k] = c
    THEN LowerCase[CHOOSE k \in 1..Len(UpperCase) : UpperCase[k] = c]
    ELSE c

\* str.lower()
lower(s) == [k \in 1..Len(s) |-> LowerChar(s[k])]

\* Python's  a in b  on strings: a is a contiguous part of b.
StrIn(a, b) ==
    \E k \in 0..(Len(b) - Len(a)) : SubSeq(b, k + 1, k + Len(a)) = a

RPCCall == <<"R","P","C","C","a","l","l">>
DataReplication == <<"D","a","t","a","R","e","p","l","i","c","a","t","i","o","n">>
Migration == <<"M","i","g","r","a","t","i","o","n">>
TransactionCommit == <<"T","r","a","n","s","a","c","t","i","o","n","C","o","m","m","i","t">>
Recovery == <<"R","e","c","o","v","e","r","y">>
LoadBalancing == <<"L","o","a","d","B","a","l","a","n","c","i","n","g">>
Analytics == <<"A","n","a","l","y","t","i","c","s">>
Monitoring == <<"M","o","n","i","t","o","r","i","n","g">>
\* Service types of injected processes: another case, a part of a service
\* name, and a longer name that holds a service name.
analytics_lc == <<"a","n","a","l","y","t","i","c","s">>
RPC == <<"R","P","C">>
RPCCallHandler == <<"R","P","C","C","a","l","l","H","a","n","d","l","e","r">>

----------------------------------------------------------------------------
\* Node

\* The keys of self.nodes in the dict's iteration (insertion) order.
NodeOrder == <<"EdgeA", "EdgeB", "CoreX", "CoreY", "CloudZ">>
NodeNames == {NodeOrder[k] : k \in 1..Len(NodeOrder)}
Position(name) == CHOOSE k \in 1..Len(NodeOrder) : NodeOrder[k] = name

\* Node(name, latency, throughput, packet_loss, cpu, memory, services);
\* packet_loss in tenths of a percent, memory in half-gigabytes.
Node(name, latency, throughput, packet_loss, cpu, memory, services) ==
    [name |-> name, latency |-> latency, throughput |-> throughput,
     packet_loss |-> packet_loss, cpu |-> cpu, memory |-> memory,
     services |-> services]

\* The ceilings of has_capacity: 90 percent and 18 GB.
CpuLimit == 90
MemoryLimit == 2 * 18

\* A has_capacity that forgot the memory ceiling.
has_capacity_cpu_only(node, cpu_needed, memory_needed) ==
    node.cpu + cpu_needed <= CpuLimit

\* Node.has_capacity
has_capacity(node, cpu_needed, memory_needed) ==
    /\ node.cpu + cpu_needed <= CpuLimit
    /\ node.memory + memory_needed <= MemoryLimit

\* Node.calculate_load_score, in 1/6000:
\* cpu/100*0.6 = 36*cpu/6000, (memory/2)/20*0.3 = 45*memory/6000,
\* latency/30*0.1 = 20*latency/6000.
calculate_load_score(node) ==
    36 * node.cpu + 45 * node.memory + 20 * node.latency

----------------------------------------------------------------------------
\* Process

Process(process_id, cpu_requirement, memory_requirement, service_type, priority) ==
    [process_id |-> process_id, cpu_requirement |-> cpu_requirement,
     memory_requirement |-> memory_requirement, service_type |-> service_type,
     priority |-> priority]

\* sorted(processes, key=lambda p: p.priority, reverse=True), computed as a
\* stable insertion sort: an element goes behind every element of a priority
\* at least its own, so equal priorities keep their input order.
InsertByPriority(p, s) ==
    LET behind == {k \in 1..Len(s) : s[k].priority >= p.priority}
        at == IF behind = {} THEN 0
              ELSE CHOOSE k \in behind : \A m \in behind : m <= k
    IN  SubSeq(s, 1, at) \o <<p>> \o SubSeq(s, at + 1, Len(s))

\* An insertion that goes in front of the elements of its own priority.
InsertInFront(p, s) ==
    LET behind == {k \in 1..Len(s) : s[k].priority > p.priority}
        at == IF behind = {} THEN 0
              ELSE CHOOSE k \in behind : \A m \in behind : m <= k
    IN  SubSeq(s, 1, at) \o <<p>> \o SubSeq(s, at + 1, Len(s))

RECURSIVE SortedUpTo(_, _)
SortedUpTo(s, n) ==
    IF n = 0 THEN <<>> ELSE InsertByPriority(s[n], SortedUpTo(s, n - 1))

RECURSIVE UnstableUpTo(_, _)
UnstableUpTo(s, n) ==
    IF n = 0 THEN <<>> ELSE InsertInFront(s[n], UnstableUpTo(s, n - 1))

\* A sort that is not stable.
sorted_unstable(s) == UnstableUpTo(s, Len(s))

sorted_by_priority(s) == SortedUpTo(s, Len(s))

----------------------------------------------------------------------------
\* ProcessAllocator._allocate_single_process

\* A match that compares the service names as they are written.
service_match_case_sensitive(node, process) ==
    \E k \in 1..Len(node.services) :
        StrIn(node.services[k], process.service_type)

\* service_match: any(svc in process.service_type.lower()
\*                    for svc in [s.lower() for s in node.services])
service_match(node, process) ==
    \E k \in 1..Len(node.services) :
        StrIn(lower(node.services[k]), lower(process.service_type))

\* placement_score in 1/12000: load_score*0.5 is the load score's count in
\* 1/6000, latency/30*0.3 = 120*latency/12000, and 0.2 = 2400/12000.
placement_score(node, process) ==
    calculate_load_score(node)
    + 120 * node.latency
    + (IF service_match(node, process) THEN 0 ELSE 2400)

\* The names of the list candidates: the nodes that pass has_capacity.
Candidates(ns, process) ==
    {name \in NodeNames :
        has_capacity(ns[name], process.cpu_requirement, process.memory_requirement)}

\* A selection that takes any candidate of the lowest score.
IsAnyMin(ns, process, name) ==
    \A other \in Candidates(ns, process) :
        placement_score(ns[name], process) <= placement_score(ns[other], process)

\* A selection that takes the highest score.
IsMax(ns, process, name) ==
    \A other \in Candidates(ns, process) :
        /\ placement_score(ns[name], process) >= placement_score(ns[other], process)
        /\ placement_score(ns[name], process) = placement_score(ns[other], process)
            => Position(name) <= Position(other)

\* min(candidates, key=lambda x: x[2]): the lowest score, and of several the
\* first in the list, which is in the order of self.nodes.items().
IsBest(ns, process, name) ==
    \A other \in Candidates(ns, process) :
        /\ placement_score(ns[name], process) <= placement_score(ns[other], process)
        /\ placement_score(ns[name], process) = placement_score(ns[other], process)
            => Position(name) <= Position(other)

\* An update that takes the requirements away.
UpdateSubtracting(ns, name, process) ==
    [ns EXCEPT ![name].cpu = @ - process.cpu_requirement,
               ![name].memory = @ - process.memory_requirement]

\* An update that adds the cpu requirement to every node.
UpdateEveryCpu(ns, name, process) ==
    [m \in NodeNames |->
        [ns[m] EXCEPT !.cpu = @ + process.cpu_requirement,
                      !.memory = IF m = name THEN @ + process.memory_requirement
                                 ELSE @]]

\* best_node.cpu += ..., best_node.memory += ...
UpdateResources(ns, name, process) ==
    [ns EXCEPT ![name].cpu = @ + process.cpu_requirement,
               ![name].memory = @ + process.memory_requirement]

\* A record that puts the process at the head of the list.
RecordAtHead(al, name, process) ==
    [al EXCEPT ![name] = <<process>> \o @]

\* A record that puts the process on every node's list.
RecordEverywhere(al, name, process) ==
    [m \in NodeNames |-> Append(al[m], process)]

\* self.allocations[best_node_name].append(process)
RecordAllocation(al, name, process) ==
    [al EXCEPT ![name] = Append(@, process)]

\* _allocate_single_process as a relation between the state before (ns, al)
\* and after (ns2, al2) and the value returned.
AllocateSingleProcess(ns, al, process, ns2, al2, result) ==
    \/ /\ Candidates(ns, process) = {}
       /\ result = None
       /\ ns2 = ns
       /\ al2 = al
    \/ /\ result \in Candidates(ns, process)
       /\ IsBest(ns, process, result)
       /\ ns2 = UpdateResources(ns, result, process)
       /\ al2 = RecordAllocation(al, result, process)

----------------------------------------------------------------------------
\* The datasets

\* LoadBalancer.__init__: the nodes of the dataset.
ReferenceNodes ==
    [name \in NodeNames |->
        CASE name = "EdgeA" -> Node("EdgeA", 10, 520, 3, 40, 8, <<RPCCall, DataReplication>>)
          [] name = "EdgeB" -> Node("EdgeB", 14, 470, 5, 48, 10, <<RPCCall, Migration>>)
          [] name = "CoreX" -> Node("CoreX", 7, 980, 1, 65, 16, <<TransactionCommit>>)
          [] name = "CoreY" -> Node("CoreY", 9, 950, 2, 58, 14, <<Recovery, LoadBalancing>>)
          [] name = "CloudZ" -> Node("CloudZ", 22, 1250, 4, 72, 32, <<Analytics, RPCCall>>)]

\* The same nodes close to their ceilings (CoreY on both).
LoadedNodes ==
    [name \in NodeNames |->
        CASE name = "EdgeA" -> [ReferenceNodes[name] EXCEPT !.cpu = 80, !.memory = 28]
          [] name = "EdgeB" -> [ReferenceNodes[name] EXCEPT !.cpu = 75, !.memory = 32]
          [] name = "CoreX" -> [ReferenceNodes[name] EXCEPT !.cpu = 85, !.memory = 20]
          [] name = "CoreY" -> [ReferenceNodes[name] EXCEPT !.cpu = 90, !.memory = 36]
          [] name = "CloudZ" -> ReferenceNodes[name]]

\* The same nodes with EdgeB a copy of EdgeA in all but the name, so that
\* the two have the same placement score for every process.
TiedNodes ==
    [name \in NodeNames |->
        IF name = "EdgeB"
        THEN [ReferenceNodes["EdgeA"] EXCEPT !.name = "EdgeB"]
        ELSE ReferenceNodes[name]]

InitialNodes == {ReferenceNodes, LoadedNodes, TiedNodes}

\* The kinds of process a batch is drawn from (process_id is set by the
\* place in the batch): P1_Analytics and P10_Monitor of
\* _generate_sample_processes, and injected ones: a service type that is a
\* part of a service name, one that holds a service name, one in another
\* case, and a process of 30 percent and 5 GB.
Catalog ==
    { Process(0, 15, 4, Analytics, 3),
      Process(0, 10, 3, RPC, 3),
      Process(0, 10, 3, RPCCallHandler, 2),
      Process(0, 12, 4, analytics_lc, 1),
      Process(0, 5, 1, Monitoring, 1),
      Process(0, 30, 10, TransactionCommit, 2) }

\* LoadBalancer._generate_sample_processes, P1 to P10.
SampleProcesses ==
    << Process(1, 15, 4, Analytics, 3),
       Process(2, 10, 3, RPCCall, 3),
       Process(3, 12, 5, DataReplication, 2),
       Process(4, 18, 6, TransactionCommit, 3),
       Process(5, 8, 2, Recovery, 2),
       Process(6, 10, 3, LoadBalancing, 2),
       Process(7, 14, 4, Migration, 1),
       Process(8, 10, 3, RPCCall, 2),
       Process(9, 12, 4, Analytics, 1),
       Process(10, 5, 1, Monitoring, 1) >>

\* The batches: the sample batch, and every list of at most MaxBatch
\* processes of the catalog, with unique ids.
Batches ==
    {SampleProcesses} \cup
    UNION { { [k \in 1..n |-> [f[k] EXCEPT !.process_id = k]] :
                f \in [1..n -> Catalog] } : n \in 0..MaxBatch }

----------------------------------------------------------------------------
\* ProcessAllocator.allocate_processes

\* ProcessAllocator.__init__, and the call of allocate_processes.
Init ==
    /\ nodes \in InitialNodes
    /\ initial_nodes = nodes
    /\ processes \in Batches
    /\ allocations = [name \in NodeNames |-> <<>>]
    /\ sorted_processes = <<>>
    /\ pc = "sort"
    /\ idx = 0
    /\ output = <<>>
    /\ twin_nodes = nodes
    /\ twin_allocations = allocations
    /\ twin_output = output

\* sorted_processes = sorted(processes, key=lambda p: p.priority, reverse=True)
SortProcesses ==
    /\ pc = "sort"
    /\ sorted_processes' = sorted_by_priority(processes)
    /\ pc' = "loop"
    /\ idx' = 1
    /\ UNCHANGED <<nodes, initial_nodes, allocations, processes, output, twin_vars>>

\* A loop that stops at the first process that found no node.
AfterAttemptStopping(result) == IF result = None THEN "done" ELSE "loop"

\* Where the loop goes after an attempt: both branches of `if allocated`
\* print a line and go on with the next process.
AfterAttempt(result) == "loop"

\* The line the loop prints for a process: its id and the node, or FAILED.
Line(process, result) == [process_id |-> process.process_id, node |-> result]

\* One iteration of  for process in sorted_processes.
AllocateStep ==
    /\ pc = "loop"
    /\ idx <= Len(sorted_processes)
    /\ \E result \in NodeNames \cup {None} :
        /\ AllocateSingleProcess(nodes, allocations, sorted_processes[idx],
                                 nodes', allocations', result)
        /\ output' = Append(output, Line(sorted_processes[idx], result))
        /\ pc' = AfterAttempt(result)
    /\ idx' = idx + 1
    /\ UNCHANGED <<initial_nodes, processes, sorted_processes, twin_vars>>

\* The loop is over: return self.allocations.
Finish ==
    /\ pc = "loop"
    /\ idx > Len(sorted_processes)
    /\ pc' = "done"
    /\ UNCHANGED <<nodes, initial_nodes, allocations, processes, sorted_processes,
                   idx, output, twin_vars>>

Next == SortProcesses \/ AllocateStep \/ Finish

Spec == Init /\ [][Next]_vars

\* One iteration of the loop in two runs on the same nodes and batch, each
\* run making its own selection.
TwinStep ==
    /\ pc = "loop"
    /\ idx <= Len(sorted_processes)
    /\ \E result \in NodeNames \cup {None} :
        /\ AllocateSingleProcess(nodes, allocations, sorted_processes[idx],
                                 nodes', allocations', result)
        /\ output' = Append(output, Line(sorted_processes[idx], result))
        /\ pc' = AfterAttempt(result)
    /\ \E result \in NodeNames \cup {None} :
        /\ AllocateSingleProcess(twin_nodes, twin_allocations, sorted_processes[idx],
                                 twin_nodes', twin_allocations', result)
        /\ twin_output' = Append(twin_output, Line(sorted_processes[idx], result))
    /\ idx' = idx + 1
    /\ UNCHANGED <<initial_nodes, processes, sorted_processes>>

TwinNext == SortProcesses \/ TwinStep \/ Finish

TwinSpec == Init /\ [][TwinNext]_vars

----------------------------------------------------------------------------
\* Vocabulary of the properties

\* The process of the batch with this id, and its place in the input.
InputPosition(id) == CHOOSE k \in 1..Len(processes) : processes[k].process_id = id
ProcessOf(id) == processes[InputPosition(id)]

\* The places of the printed lines that are about this process.
LinesOf(id) == {k \in 1..Len(output) : output[k].process_id = id}
Attempted(id) == LinesOf(id) # {}
AttemptPosition(id) == CHOOSE k \in 1..Len(output) : output[k].process_id = id

\* The capacity gate in the words of the specification: cpu + need <= 90
\* and memory + need <= 18 GB.
PassesGate(node, process) ==
    /\ node.cpu + process.cpu_requirement <= 90
    /\ node.memory + process.memory_requirement <= 2 * 18

\* The step printed a line for process p with this result.
Printed(p, result) == output' = Append(output, [process_id |-> p.process_id, node |-> result])

\* The step placed the process under the loop on node n.
PlacedOn(n) ==
    /\ pc = "loop"
    /\ idx <= Len(sorted_processes)
    /\ n # None
    /\ Printed(sorted_processes[idx], n)

IsPrefix(s, t) == Len(s) <= Len(t) /\ SubSeq(t, 1, Len(s)) = s

RECURSIVE SumCpu(_)
SumCpu(s) == IF s = <<>> THEN 0 ELSE s[1].cpu_requirement + SumCpu(Tail(s))

RECURSIVE SumMemory(_)
SumMemory(s) == IF s = <<>> THEN 0 ELSE s[1].memory_requirement + SumMemory(Tail(s))

\* The places where process id stands in the allocation list of node n.
PlacesIn(n, id) == {k \in 1..Len(allocations[n]) : allocations[n][k].process_id = id}

----------------------------------------------------------------------------
\* C1. Capacity invariant: from nodes within the ceilings, every node has
\* cpu <= 90 and memory <= 18 GB in every state of the pass; a sum that
\* lands on 90 or on 18 GB exactly is allowed.
CapacityInvariant ==
    \A n \in NodeNames : nodes[n].cpu <= 90 /\ nodes[n].memory <= 2 * 18

\* A process was committed to a node that now stands on both ceilings.
CapacityWitness ==
    \E n \in NodeNames :
        /\ allocations[n] # <<>>
        /\ nodes[n].cpu > initial_nodes[n].cpu
        /\ nodes[n].cpu = 90
        /\ nodes[n].memory = 2 * 18

\* C2. Greedy minimality: whenever a process is placed, the chosen node
\* passes the capacity gate for it and its placement score, on the nodes as
\* they are at the decision, is at most that of every node that passes the
\* gate; the chosen node is the one the process is committed to.
GreedyMinimality ==
    [][\A n \in NodeNames :
        PlacedOn(n) =>
            LET p == sorted_processes[idx]
            IN  /\ PassesGate(nodes[n], p)
                /\ \A m \in NodeNames :
                      PassesGate(nodes[m], p) =>
                          placement_score(nodes[n], p) <= placement_score(nodes[m], p)
                /\ allocations'[n] = Append(allocations[n], p)]_vars

\* A process went to a node other than the first one although the first
\* one, EdgeA, had room for it then (it still has): the score decided.
GreedyWitness ==
    \E k \in 1..Len(output) :
        /\ output[k].node \in NodeNames \ {"EdgeA"}
        /\ PassesGate(nodes["EdgeA"], ProcessOf(output[k].process_id))

\* C3. Priority ordering: of two processes of different priority the one of
\* the higher priority is attempted strictly before the other, two of equal
\* priority are attempted in their input order, and every node's allocation
\* list is in the order of the attempts.
PriorityOrdering ==
    /\ \A a, b \in 1..Len(processes) :
          LET p == processes[a]
              q == processes[b]
          IN  (/\ Attempted(q.process_id)
               /\ \/ p.priority > q.priority
                  \/ p.priority = q.priority /\ a < b)
              => /\ Attempted(p.process_id)
                 /\ AttemptPosition(p.process_id) < AttemptPosition(q.process_id)
    /\ \A n \in NodeNames : \A a, b \in 1..Len(allocations[n]) :
          a < b => AttemptPosition(allocations[n][a].process_id)
                     < AttemptPosition(allocations[n][b].process_id)

\* A node's list holds a later input before an earlier one (priority
\* decided), on top of two of equal priority in their input order.
PriorityWitness ==
    \E n \in NodeNames : \E a, b, c \in 1..Len(allocations[n]) :
        /\ a < b /\ b < c
        /\ allocations[n][a].priority > allocations[n][b].priority
        /\ InputPosition(allocations[n][a].process_id)
             > InputPosition(allocations[n][b].process_id)
        /\ allocations[n][b].priority = allocations[n][c].priority

\* C4. Placement failure: when no node passes the gate for the process
\* under the loop, the step prints it as failed, changes no node and no
\* allocation list, and the loop goes on with the next process; a process
\* is never attempted twice, and a pass that ended has attempted them all.
NoNodePasses(p) == \A n \in NodeNames : ~PassesGate(nodes[n], p)

PlacementFailure ==
    /\ [][(/\ pc = "loop"
           /\ idx <= Len(sorted_processes)
           /\ NoNodePasses(sorted_processes[idx]))
          => /\ Printed(sorted_processes[idx], None)
             /\ nodes' = nodes
             /\ allocations' = allocations
             /\ pc' = "loop"
             /\ idx' = idx + 1]_vars
    /\ [](\A k \in 1..Len(processes) :
            /\ Cardinality(LinesOf(processes[k].process_id)) <= 1
            /\ pc = "done" => Attempted(processes[k].process_id))

\* A process failed and a later one of the same pass was placed.
FailureWitness ==
    \E a, b \in 1..Len(output) :
        /\ a < b
        /\ output[a].node = None
        /\ output[b].node \in NodeNames
        /\ allocations[output[b].node] # <<>>

\* C5. Exactly-once accounting: the pass ends (until it has ended a step
\* is possible, and every step brings the end nearer), and at its end every
\* process of the batch has exactly one printed line; a process printed
\* with a node stands exactly once in that node's list and in no other
\* list, a process printed as failed stands in no list, and the placed and
\* the failed together are the N of the batch.
PlacedIds == {output[k].process_id : k \in {j \in 1..Len(output) : output[j].node # None}}
FailedIds == {output[k].process_id : k \in {j \in 1..Len(output) : output[j].node = None}}

Accounting ==
    /\ Len(output) = Len(processes)
    /\ \A k \in 1..Len(processes) :
          LET id == processes[k].process_id
          IN  /\ Cardinality(LinesOf(id)) = 1
              /\ \A n \in NodeNames :
                    Cardinality(PlacesIn(n, id))
                      = IF output[AttemptPosition(id)].node = n THEN 1 ELSE 0
    /\ PlacedIds \cap FailedIds = {}
    /\ Cardinality(PlacedIds) + Cardinality(FailedIds) = Len(processes)

\* The steps the pass has left: the sort, the processes not yet attempted,
\* and the return.
StepsLeft ==
    CASE pc = "sort" -> Len(processes) + 2
      [] pc = "loop" -> Len(sorted_processes) - idx + 2
      [] pc = "done" -> 0

\* A step is possible: the sort, the return, or an attempt, which either
\* finds no node passing the gate or has a node to select.
CanStep ==
    \/ pc = "sort"
    \/ pc = "loop" /\ idx > Len(sorted_processes)
    \/ /\ pc = "loop"
       /\ idx <= Len(sorted_processes)
       /\ \/ NoNodePasses(sorted_processes[idx])
          \/ \E n \in NodeNames :
                /\ PassesGate(nodes[n], sorted_processes[idx])
                /\ IsBest(nodes, sorted_processes[idx], n)

ExactlyOnce ==
    /\ [](pc = "done" => Accounting)
    /\ [](pc # "done" => CanStep)
    /\ [][StepsLeft' = StepsLeft - 1]_vars

\* A pass ended with a process placed and a process failed.
ExactlyOnceWitness ==
    /\ pc = "done"
    /\ PlacedIds # {}
    /\ FailedIds # {}

\* C6 as the specification words it: the bonus is 0 when the service type,
\* without regard to case, holds or is held by one of the node's service
\* names, and 0.2 (2400 in 1/12000) otherwise.
HoldsEitherWay(node, process) ==
    \E k \in 1..Len(node.services) :
        \/ StrIn(lower(node.services[k]), lower(process.service_type))
        \/ StrIn(lower(process.service_type), lower(node.services[k]))

HoldsServiceName(node, process) ==
    \E k \in 1..Len(node.services) :
        StrIn(lower(node.services[k]), lower(process.service_type))

\* The part of the placement score that is not load and not latency.
BonusOf(node, process) ==
    placement_score(node, process) - calculate_load_score(node) - 120 * node.latency

NoRetroactiveChange ==
    [][\A n \in NodeNames : IsPrefix(allocations[n], allocations'[n])]_vars

\* A node holds two processes: the second came on top of the first.
NoRetroactiveWitness ==
    \E n \in NodeNames : Len(allocations[n]) >= 2

\* C8. Monotonic commit: no step lowers the cpu or the memory of a node.
MonotonicCommit ==
    [][\A n \in NodeNames :
          /\ nodes'[n].cpu >= nodes[n].cpu
          /\ nodes'[n].memory >= nodes[n].memory]_vars

\* A commit raised the cpu and the memory of a node.
MonotonicWitness ==
    \E n \in NodeNames :
        /\ allocations[n] # <<>>
        /\ nodes[n].cpu > initial_nodes[n].cpu
        /\ nodes[n].memory > initial_nodes[n].memory

\* C9. Determinism: two runs from the same nodes and the same batch end
\* with the same allocation lists, the same nodes and the same printed
\* lines, also when several candidates have the lowest score.
Determinism ==
    pc = "done" =>
        /\ twin_allocations = allocations
        /\ twin_nodes = nodes
        /\ twin_output = output

\* Both runs ended after a decision between EdgeA and EdgeB, which had the
\* same node state and so the same score, and both took EdgeA.
DeterminismWitness ==
    /\ pc = "done"
    /\ initial_nodes = TiedNodes
    /\ Len(output) >= 1
    /\ output[1].node = "EdgeA"
    /\ twin_output[1].node = "EdgeA"
    /\ placement_score(initial_nodes["EdgeA"], sorted_processes[1])
         = placement_score(initial_nodes["EdgeB"], sorted_processes[1])
    /\ PassesGate(initial_nodes["EdgeB"], sorted_processes[1])

\* C10. Commit frame: a placement of p on n adds p's requirements to n's
\* cpu and memory and appends p to n's list, and leaves every other node
\* and list as it was; no step changes a node's name, latency, throughput,
\* packet loss or services.  So every node's cpu and memory are the
\* initial ones plus the requirements of the processes in its list, and an
\* empty batch leaves the nodes as they were and the lists empty.
CommitFrame ==
    /\ [][/\ \A n \in NodeNames :
               PlacedOn(n) =>
                   LET p == sorted_processes[idx]
                   IN  /\ nodes'[n].cpu = nodes[n].cpu + p.cpu_requirement
                       /\ nodes'[n].memory = nodes[n].memory + p.memory_requirement
                       /\ allocations'[n] = Append(allocations[n], p)
                       /\ \A m \in NodeNames \ {n} :
                             nodes'[m] = nodes[m] /\ allocations'[m] = allocations[m]
          /\ \A n \in NodeNames :
               /\ nodes'[n].name = nodes[n].name
               /\ nodes'[n].latency = nodes[n].latency
               /\ nodes'[n].throughput = nodes[n].throughput
               /\ nodes'[n].packet_loss = nodes[n].packet_loss
               /\ nodes'[n].services = nodes[n].services]_vars
    /\ [](/\ \A n \in NodeNames :
               /\ nodes[n].cpu = initial_nodes[n].cpu + SumCpu(allocations[n])
               /\ nodes[n].memory = initial_nodes[n].memory + SumMemory(allocations[n])
          /\ processes = <<>> =>
               /\ DOMAIN allocations = NodeNames
               /\ nodes = initial_nodes
               /\ \A n \in NodeNames : allocations[n] = <<>>)

\* A node holds two processes while another node holds one.
CommitFrameWitness ==
    \E n, m \in NodeNames :
        /\ n # m
        /\ Len(allocations[n]) = 2
        /\ Len(allocations[m]) = 1

====
